---- MODULE Spec2Model ----
(***************************************************************************)
(* Model of the vue-shadcn-template CRUD scaffold.                         *)
(*                                                                         *)
(*  - the generic ASP.NET controller BaseController<T> over an EF Core     *)
(*    DbSet (backend/Api/Extensions/ServiceCollectionExtensions.cs, the    *)
(*    second file of that listing), handling requests on several workers;  *)
(*  - the fetch-based Effect HTTP client and the generic resource client   *)
(*    BaseApiService<T> (frontend/src/api/base/client.ts, base.ts).        *)
(*  - the Axios client with its interceptors and its BaseApiService<T>;    *)
(*  - the router and the breadcrumbs of App.vue;                           *)
(*  - the startup of the backend (Program) and the configuration it reads. *)
(***************************************************************************)
EXTENDS Integers, FiniteSets, Sequences, TLC

\* ------------------------------------------------------------------------
\* Bounds
\* ------------------------------------------------------------------------
\* Largest entity identifier of the model; 0 is the CLR default of int Id.
MaxId == 2

Ids == 1..MaxId
RouteIds == 0..MaxId
\* Values of the domain fields of an entity (everything except Id).
DataVals == {"a", "b"}
\* Request-handling tasks of the ASP.NET thread pool.
Workers == {1, 2}

\* ------------------------------------------------------------------------
\* Backend: entities, store, responses
\* ------------------------------------------------------------------------
\* T : BaseEntity, as bound from a JSON request body.
Entity == [Id : RouteIds, Data : DataVals]
\* C# null (FindAsync of an absent key, no request body).
NoEntity == [Id |-> -1, Data |-> "null"]

VARIABLES
    db,        \* rows of the entity table (the DbSet as persisted)
    pc,        \* per worker: position in the controller action
    req,       \* per worker: the request being handled
    tracked,   \* per worker: entity held by the request-scoped DbContext
    resp,      \* per worker: the response produced
    ledger     \* history: the entities the successful responses account for

serverVars == <<db, pc, req, tracked, resp, ledger>>

\* Frontend state: one operation of the resource client at a time.
VARIABLES
    cpc,       \* "idle", "fetching" (awaiting fetch), "done"
    call,      \* the BaseApiService operation that was run
    sent,      \* HTTP requests issued by fetch for this operation
    wire,      \* what fetch settled with
    console,   \* console.log / console.error lines of this operation
    result,    \* outcome of the Effect (of the operation, for Axios)
    wrapper,   \* the HTTP client wrapper in use: "fetch" or "axios"
    awaited    \* the promise the caller awaits

clientVars == <<cpc, call, sent, wire, console, result, wrapper, awaited>>

\* Router state of the single-page application.
VARIABLES
    route,     \* the current route (useRoute())
    history,   \* locations of the browser history of this tab
    position   \* index of the current entry in history; 0 before the first

navVars == <<route, history, position>>

\* Startup and configuration of the two programs.
VARIABLES
    app,       \* position of the backend's Program
    schema,    \* whether the database and its tables exist
    settings,  \* backend configuration (appsettings, environment)
    program,   \* which Program starts the backend
    effective, \* the connection string and CORS origin registered
    env,       \* build-time environment of the frontend
    apiUrl     \* the base URL the frontend client module holds

hostVars == <<app, schema, settings, program, effective, env, apiUrl>>

NoRequest == [verb |-> "none", id |-> 0, entity |-> NoEntity]
NoResponse == [status |-> 0, body |-> {}]

\* The HTTP requests of the REST surface.
Requests ==
    [verb : {"GetAll"}, id : {0}, entity : {NoEntity}]
    \cup [verb : {"Get", "Delete"}, id : RouteIds, entity : {NoEntity}]
    \cup [verb : {"Post"}, id : {0}, entity : Entity]
    \cup [verb : {"Put"}, id : RouteIds, entity : Entity]

\* ControllerBase result helpers.
Ok(body) == [status |-> 200, body |-> body]
CreatedAtAction(entity) == [status |-> 201, body |-> {entity}]
NoContentAsOk == [status |-> 200, body |-> {}]
NoContent == [status |-> 204, body |-> {}]
BadRequest == [status |-> 400, body |-> {}]
NotFound == [status |-> 404, body |-> {}]
\* An exception leaving the action: the framework answers 500.
UnhandledException == [status |-> 500, body |-> {}]

\* _dbSet.ToListAsync()
ToListAsync(store) == store

\* _dbSet.Any(e => e.Id == id)
EntityExistsAlways(store, id) == TRUE
EntityExists(store, id) == \E e \in store : e.Id = id

\* _dbSet.FindAsync(id): the row with that key, or null.
FindAsyncStale(store, id) == NoEntity
FindAsync(store, id) ==
    IF \E e \in store : e.Id = id
    THEN CHOOSE e \in store : e.Id = id
    ELSE NoEntity

\* if (id != entity.Id) return BadRequest();
IdMismatchNever(id, entity) == FALSE
IdMismatch(id, entity) == id # entity.Id

\* Key values the database may generate for an inserted row whose Id is
\* the default 0: an integer key not used by any row.
GeneratedIdsAny(store) == Ids
GeneratedIds(store) == {i \in Ids : ~EntityExists(store, i)}

\* INSERT of one row (SaveChanges of an Added entity).
InsertRow(store, entity) == store \cup {entity}

\* UPDATE ... WHERE Id = @id (SaveChanges of a Modified entity).
UpdateRowKeep(store, entity) == store
UpdateRowAdd(store, entity) == store \cup {entity}
UpdateRow(store, entity) ==
    {IF e.Id = entity.Id THEN entity ELSE e : e \in store}

\* SaveChangesAsync that throws (key violation, no row affected): the
\* statement runs in its own transaction, which is rolled back.
SaveChangesFailedPartly(store, entity) == store \cup {entity}
SaveChangesFailed(store, entity) == store

\* DELETE ... WHERE Id = @id (SaveChanges of a Deleted entity).
DeleteRowSoft(store, entity) == store
DeleteRowAll(store, entity) == {}
DeleteRow(store, entity) == {e \in store : e.Id # entity.Id}

\* app.Run() has been reached: the server accepts requests.
ListeningOnceBuilt(at) == at # "created"
Listening(at) == at = "running"

ServerInit ==
    /\ db = {}
    /\ pc = [w \in Workers |-> "idle"]
    /\ req = [w \in Workers |-> NoRequest]
    /\ tracked = [w \in Workers |-> NoEntity]
    /\ resp = [w \in Workers |-> NoResponse]
    /\ ledger = {}

\* Model binding: a request reaches its action on a free worker with a
\* fresh request-scoped DbContext.
Receive(w, r) ==
    /\ UNCHANGED <<clientVars, navVars, hostVars>>
    /\ Listening(app)
    /\ pc[w] = "idle"
    /\ pc' = [pc EXCEPT ![w] = r.verb]
    /\ req' = [req EXCEPT ![w] = r]
    /\ tracked' = [tracked EXCEPT ![w] = NoEntity]
    /\ resp' = [resp EXCEPT ![w] = NoResponse]
    /\ UNCHANGED <<db, ledger>>

\* What the answers given so far say is stored: a 201 of Post adds the
\* entity it returns, a 204 of Put replaces the entity of its id, a 204 of
\* Delete removes the entity of its id; no other answer changes it.
RecordedNothing(known, verb, id, entity, response) == known
Recorded(known, verb, id, entity, response) ==
    CASE verb = "Post" /\ response.status = 201 -> known \cup response.body
      [] verb = "Put" /\ response.status = 204 ->
            {e \in known : e.Id # id} \cup {entity}
      [] verb = "Delete" /\ response.status = 204 ->
            {e \in known : e.Id # id}
      [] OTHER -> known

\* return of an action with its result.
Return(w, response) ==
    /\ pc' = [pc EXCEPT ![w] = "done"]
    /\ resp' = [resp EXCEPT ![w] = response]
    /\ ledger' = Recorded(ledger, req[w].verb, req[w].id, req[w].entity, response)

\* GET api/[controller]
GetAll(w) ==
    /\ UNCHANGED <<clientVars, navVars, hostVars>>
    /\ pc[w] = "GetAll"
    /\ Return(w, Ok(ToListAsync(db)))
    /\ UNCHANGED <<db, req, tracked>>

\* GET api/[controller]/{id}
Get(w) ==
    /\ UNCHANGED <<clientVars, navVars, hostVars>>
    /\ pc[w] = "Get"
    /\ LET entity == FindAsync(db, req[w].id) IN
        /\ tracked' = [tracked EXCEPT ![w] = entity]
        /\ IF entity = NoEntity
           THEN Return(w, NotFound)
           ELSE Return(w, Ok({entity}))
    /\ UNCHANGED <<db, req>>

\* POST api/[controller]: _dbSet.Add(entity); SaveChangesAsync().
\* An Id of 0 is replaced by a generated key; any other Id is inserted as
\* given and violates the primary key when a row already has it.
Post(w) ==
    /\ UNCHANGED <<clientVars, navVars, hostVars>>
    /\ pc[w] = "Post"
    /\ LET entity == req[w].entity IN
        IF entity.Id = 0
        THEN \E i \in GeneratedIds(db) :
                LET saved == [entity EXCEPT !.Id = i] IN
                /\ db' = InsertRow(db, saved)
                /\ tracked' = [tracked EXCEPT ![w] = saved]
                /\ Return(w, CreatedAtAction(saved))
        ELSE IF EntityExists(db, entity.Id)
        THEN /\ db' = SaveChangesFailed(db, entity)
             /\ tracked' = [tracked EXCEPT ![w] = entity]
             /\ Return(w, UnhandledException)
        ELSE /\ db' = InsertRow(db, entity)
             /\ tracked' = [tracked EXCEPT ![w] = entity]
             /\ Return(w, CreatedAtAction(entity))
    /\ UNCHANGED req

\* PUT api/[controller]/{id}: identifier check, Entry(entity).State =
\* Modified, SaveChangesAsync(). An UPDATE that touches no row raises
\* DbUpdateConcurrencyException, handled by PutCatch.
Put(w) ==
    /\ UNCHANGED <<clientVars, navVars, hostVars>>
    /\ pc[w] = "Put"
    /\ LET entity == req[w].entity IN
        IF IdMismatch(req[w].id, entity)
        THEN /\ Return(w, BadRequest)
             /\ UNCHANGED <<db, tracked>>
        ELSE IF EntityExists(db, entity.Id)
        THEN /\ db' = UpdateRow(db, entity)
             /\ tracked' = [tracked EXCEPT ![w] = entity]
             /\ Return(w, NoContent)
        ELSE /\ pc' = [pc EXCEPT ![w] = "PutCatch"]
             /\ tracked' = [tracked EXCEPT ![w] = entity]
             /\ db' = SaveChangesFailed(db, entity)
             /\ UNCHANGED <<resp, ledger>>
    /\ UNCHANGED req

\* catch (DbUpdateConcurrencyException) { if (!EntityExists(id)) return
\* NotFound(); throw; }
PutCatch(w) ==
    /\ UNCHANGED <<clientVars, navVars, hostVars>>
    /\ pc[w] = "PutCatch"
    /\ IF ~EntityExists(db, req[w].id)
       THEN Return(w, NotFound)
       ELSE Return(w, UnhandledException)
    /\ UNCHANGED <<db, req, tracked>>

\* DELETE api/[controller]/{id}: FindAsync, then Remove + SaveChangesAsync
\* in DeleteSave.
Delete(w) ==
    /\ UNCHANGED <<clientVars, navVars, hostVars>>
    /\ pc[w] = "Delete"
    /\ LET entity == FindAsync(db, req[w].id) IN
        /\ tracked' = [tracked EXCEPT ![w] = entity]
        /\ IF entity = NoEntity
           THEN Return(w, NotFound)
           ELSE /\ pc' = [pc EXCEPT ![w] = "DeleteSave"]
                /\ UNCHANGED <<resp, ledger>>
    /\ UNCHANGED <<db, req>>

\* _dbSet.Remove(entity); SaveChangesAsync(). A DELETE that touches no row
\* raises DbUpdateConcurrencyException, which Delete does not catch.
DeleteSave(w) ==
    /\ UNCHANGED <<clientVars, navVars, hostVars>>
    /\ pc[w] = "DeleteSave"
    /\ IF EntityExists(db, tracked[w].Id)
       THEN /\ db' = DeleteRow(db, tracked[w])
            /\ Return(w, NoContent)
       ELSE /\ db' = SaveChangesFailed(db, tracked[w])
            /\ Return(w, UnhandledException)
    /\ UNCHANGED <<req, tracked>>

\* The response is written and the request scope (DbContext) disposed.
Complete(w) ==
    /\ UNCHANGED <<clientVars, navVars, hostVars>>
    /\ pc[w] = "done"
    /\ pc' = [pc EXCEPT ![w] = "idle"]
    /\ req' = [req EXCEPT ![w] = NoRequest]
    /\ tracked' = [tracked EXCEPT ![w] = NoEntity]
    /\ resp' = [resp EXCEPT ![w] = NoResponse]
    /\ UNCHANGED <<db, ledger>>

\* ------------------------------------------------------------------------
\* Frontend: fetch-based Effect client and BaseApiService<T>
\* ------------------------------------------------------------------------
\* Longest JSON array a response body carries.
MaxLen == 2

BASE_URL == "http://localhost:5000/api"
\* The resource path a BaseApiService is constructed with.
endpoint == "tasks"

\* JSON values of an entity's fields as they arrive on the wire.
JNumber(v) == [t |-> "number", v |-> v]
JString(v) == [t |-> "string", v |-> v]
IsoDate == "2024-01-01T00:00:00Z"
JsonIdValues == {JNumber("1"), JString("1")}
JsonDateValues == {JString(IsoDate), JString("soon"), JNumber("0")}
\* A JSON object: the two BaseEntity fields.
JsonObjects == [id : JsonIdValues, createdAt : JsonDateValues]
JsonArrays == UNION {[1..n -> JsonObjects] : n \in 0..MaxLen}
\* A response body: a JSON object, a JSON array, JSON null, or text that
\* is not JSON (an empty body included).
Bodies ==
    [json : {"object"}, items : {<<o>> : o \in JsonObjects}]
    \cup [json : {"array"}, items : JsonArrays]
    \cup [json : {"null", "invalid"}, items : {<<>>}]

Statuses == {200, 201, 204, 400, 401, 404, 500}
\* What fetch settles with: a response of any status, or a rejection.
Settlements ==
    [kind : {"response"}, status : Statuses, body : Bodies]
    \cup [kind : {"rejected"}, status : {0}, body : {[json |-> "invalid", items |-> <<>>]}]
NoSettlement == [kind |-> "none", status |-> 0, body |-> [json |-> "invalid", items |-> <<>>]]

\* Arguments of the resource client's operations; id 0 is "no id".
ClientEntity == [id : RouteIds, data : DataVals]
NoData == [id |-> 0, data |-> "none"]
Calls ==
    [op : {"getAll"}, id : {0}, entity : {NoData}]
    \cup [op : {"getById", "delete"}, id : Ids, entity : {NoData}]
    \cup [op : {"create"}, id : {0}, entity : {e \in ClientEntity : e.id = 0}]
    \cup [op : {"update"}, id : Ids, entity : {e \in ClientEntity : e.id # 0}]
NoCall == [op |-> "none", id |-> 0, entity |-> NoData]

\* `/${this.endpoint}` and `/${this.endpoint}/${id}`
CollectionUrl == <<"/", endpoint>>
ItemUrl(id) == <<"/", endpoint, "/", ToString(id)>>

\* The httpClient method, url and body each operation passes on.
MethodOf(c) ==
    CASE c.op = "getAll" -> "GET"
      [] c.op = "getById" -> "GET"
      [] c.op = "create" -> "POST"
      [] c.op = "update" -> "PUT"
      [] c.op = "delete" -> "DELETE"
UrlOf(c) ==
    IF c.op \in {"getAll", "create"} THEN CollectionUrl ELSE ItemUrl(c.id)
BodyOf(c) ==
    IF c.op \in {"create", "update"} THEN c.entity ELSE NoData

\* fetch(`${BASE_URL}${url}`, { method, headers, body }): one request.
fetchRetry(requests, method, url, body) ==
    requests \o << [method |-> method, url |-> <<BASE_URL>> \o url, body |-> body],
                   [method |-> method, url |-> <<BASE_URL>> \o url, body |-> body] >>
fetch(requests, method, url, body) ==
    Append(requests, [method |-> method, url |-> <<BASE_URL>> \o url, body |-> body])

\* response.ok
okLenient(status) == status < 500
ok(status) == status >= 200 /\ status <= 299

\* response.statusText
statusText(status) ==
    CASE status = 200 -> "OK"
      [] status = 201 -> "Created"
      [] status = 204 -> "No Content"
      [] status = 400 -> "Bad Request"
      [] status = 401 -> "Unauthorized"
      [] status = 404 -> "Not Found"
      [] OTHER -> "Internal Server Error"

\* Errors. status 0 stands for an undefined status property.
NoCause == [name |-> "none", status |-> 0, message |-> <<>>]
\* new ApiError(`${method} failed: ${response.statusText}`, response.status)
ApiError(method, status) ==
    [name |-> "ApiError", status |-> status,
     message |-> <<method, " failed: ", statusText(status)>>]
\* What fetch rejects with and what response.json() rejects with.
TypeError == [name |-> "TypeError", status |-> 0, message |-> <<"Failed to fetch">>]
SyntaxError == [name |-> "SyntaxError", status |-> 0, message |-> <<"Unexpected token">>]
\* Effect.tryPromise called with a function and no catch: whatever the
\* promise rejects with is wrapped in an UnknownException, which keeps the
\* rejection in its error property and has no status of its own.
UnknownException(thrown) ==
    [tag |-> "UnknownException", status |-> 0,
     message |-> <<"An unknown error occurred in Effect.tryPromise">>,
     error |-> thrown]
\* The failure of Schema.decodeUnknown.
ParseError ==
    [tag |-> "ParseError", status |-> 0, message |-> <<"ParseError">>,
     error |-> NoCause]
NoError == [tag |-> "none", status |-> 0, message |-> <<>>, error |-> NoCause]

\* Outcomes of an Effect.
Succeed(shape, items) == [kind |-> "success", shape |-> shape, items |-> items, error |-> NoError]
Fail(e) == [kind |-> "failure", shape |-> "none", items |-> <<>>, error |-> e]
NoResult == [kind |-> "none", shape |-> "none", items |-> <<>>, error |-> NoError]

\* Schema.DateFromString: any string decodes to a Date, an invalid one
\* when the string is no date.
DateFromString(v) == IF v = IsoDate THEN [time |-> IsoDate] ELSE [time |-> "Invalid Date"]

\* BaseEntitySchema = Struct({ id: Number, createdAt: DateFromString }):
\* whether a JSON object decodes, and the value it decodes to.
SchemaAcceptsAny(o) == TRUE
SchemaAccepts(o) == o.id.t = "number" /\ o.createdAt.t = "string"
DecodeObject(o) == [id |-> o.id.v, createdAt |-> DateFromString(o.createdAt.v)]

\* Schema.decodeUnknown(schema) / Schema.decodeUnknown(Schema.Array(schema))
\* applied to a value: json is the kind of JSON value, items its objects.
decodeUnknown(shape, json, items) ==
    IF json = shape /\ \A k \in 1..Len(items) : SchemaAccepts(items[k])
    THEN Succeed(shape, [k \in 1..Len(items) |-> DecodeObject(items[k])])
    ELSE Fail(ParseError)

\* The async function of httpClient.get/post/put/delete after fetch has
\* settled, under Effect.tryPromise. readsBody: get and post return
\* response.json(), put and delete return nothing.
tryPromise(method, readsBody, settled) ==
    IF settled.kind = "rejected" THEN Fail(UnknownException(TypeError))
    ELSE IF ~ok(settled.status)
    THEN Fail(UnknownException(ApiError(method, settled.status)))
    ELSE IF ~readsBody THEN Succeed("void", <<>>)
    ELSE IF settled.body.json = "invalid" THEN Fail(UnknownException(SyntaxError))
    ELSE Succeed(settled.body.json, settled.body.items)

\* Effect.andThen(Schema.decodeUnknown(...)) of getAll, getById and create:
\* decoding runs on the value of a successful request only.
ShapeOf(c) == IF c.op = "getAll" THEN "array" ELSE "object"
ReadsBody(c) == c.op \in {"getAll", "getById", "create"}
andThen(c, outcome) ==
    IF outcome.kind = "success" /\ ReadsBody(c)
    THEN decodeUnknown(ShapeOf(c), outcome.shape, outcome.items)
    ELSE outcome

\* Promises: pending, fulfilled with a value, rejected with a reason.
Pending == [state |-> "pending", shape |-> "none", items |-> <<>>, reason |-> NoError]
Fulfilled(shape, items) ==
    [state |-> "fulfilled", shape |-> shape, items |-> items, reason |-> NoError]
Rejected(e) == [state |-> "rejected", shape |-> "none", items |-> <<>>, reason |-> e]

\* runRequest = Effect.runPromise(effect): the promise is fulfilled with
\* the value of a successful Effect and rejected when the Effect fails.
runRequest(outcome) ==
    IF outcome.kind = "success"
    THEN Fulfilled(outcome.shape, outcome.items)
    ELSE Rejected(outcome.error)

\* console.log / console.error lines.
RequestLine(method, url) ==
    [level |-> "log", mark |-> "request", method |-> method, url |-> <<BASE_URL>> \o url, status |-> 0]
ResponseLine(method, url, status) ==
    [level |-> IF ok(status) THEN "log" ELSE "error",
     mark |-> IF ok(status) THEN "success" ELSE "failure",
     method |-> method, url |-> <<BASE_URL>> \o url, status |-> status]

ClientInit ==
    /\ cpc = "idle"
    /\ call = NoCall
    /\ sent = <<>>
    /\ wire = NoSettlement
    /\ console = <<>>
    /\ result = NoResult
    /\ wrapper = "none"
    /\ awaited = Pending

\* Running the Effect an operation returns, up to `await fetch(...)`.
Run(c) ==
    /\ cpc = "idle"
    /\ cpc' = "fetching"
    /\ call' = c
    /\ console' = <<RequestLine(MethodOf(c), UrlOf(c))>>
    /\ sent' = fetch(<<>>, MethodOf(c), UrlOf(c), BodyOf(c))
    /\ wire' = NoSettlement
    /\ result' = NoResult
    /\ wrapper' = "fetch"
    /\ awaited' = Pending
    /\ UNCHANGED <<serverVars, navVars, hostVars>>

\* fetch settles; the rest of the async function runs, then the decoding
\* step of the operation.
Settle(s) ==
    /\ cpc = "fetching"
    /\ wrapper = "fetch"
    /\ cpc' = "done"
    /\ wire' = s
    /\ console' =
        IF s.kind = "response"
        THEN Append(console, ResponseLine(MethodOf(call), UrlOf(call), s.status))
        ELSE console
    /\ result' = andThen(call, tryPromise(MethodOf(call), ReadsBody(call), s))
    /\ awaited' = runRequest(result')
    /\ UNCHANGED <<call, sent, wrapper>>
    /\ UNCHANGED <<serverVars, navVars, hostVars>>

\* The caller has taken the outcome.
Finish ==
    /\ cpc = "done"
    /\ cpc' = "idle"
    /\ call' = NoCall
    /\ sent' = <<>>
    /\ wire' = NoSettlement
    /\ console' = <<>>
    /\ result' = NoResult
    /\ wrapper' = "none"
    /\ awaited' = Pending
    /\ UNCHANGED <<serverVars, navVars, hostVars>>

ClientNext ==
    \/ \E c \in Calls : Run(c)
    \/ \E s \in Settlements : Settle(s)
    \/ Finish

\* ------------------------------------------------------------------------
\* Frontend: router and breadcrumbs of App.vue
\* ------------------------------------------------------------------------
\* Longest browser history of the model.
MaxHistory == 3
\* Longest breadcrumb list a route's meta declares.
MaxCrumbs == 2

\* route.meta: without breadcrumbs, or with a declared list.
NoMeta == [declared |-> FALSE, breadcrumbs |-> <<>>]
Meta(list) == [declared |-> TRUE, breadcrumbs |-> list]
Crumb(label, path) == [label |-> label, path |-> path]

\* The routes of router/index.ts.
routes ==
    << [path |-> "/", name |-> "home", meta |-> NoMeta],
       [path |-> "/home/details", name |-> "home-details",
        meta |-> Meta(<<Crumb("Home", "/"), Crumb("Details", "/home/details")>>)],
       [path |-> "/inbox", name |-> "inbox", meta |-> NoMeta],
       [path |-> "/calendar", name |-> "calendar", meta |-> NoMeta],
       [path |-> "/search", name |-> "search", meta |-> NoMeta],
       [path |-> "/settings", name |-> "settings", meta |-> NoMeta] >>

\* The label part of routeInfo.
routeInfo ==
    [home |-> [label |-> "Home"], inbox |-> [label |-> "Inbox"],
     calendar |-> [label |-> "Calendar"], search |-> [label |-> "Search"],
     settings |-> [label |-> "Settings"]]

\* Route before the initial navigation has finished.
START_LOCATION == [path |-> "/", name |-> "undefined", meta |-> NoMeta]

\* Path matching of createRouter with its default options (strict: false):
\* a path matches a record with or without one trailing slash.
Matches(record, location) ==
    \/ location = record.path
    \/ record.path # "/" /\ location = record.path \o "/"

\* The route a location resolves to: the first matching record, with the
\* path of the location itself.
ResolveUnmatched(location) == [path |-> location, name |-> "undefined", meta |-> NoMeta]
Resolve(location) ==
    IF \E k \in 1..Len(routes) : Matches(routes[k], location)
    THEN LET k == CHOOSE i \in 1..Len(routes) :
                    /\ Matches(routes[i], location)
                    /\ \A j \in 1..(i - 1) : ~Matches(routes[j], location)
         IN  [path |-> location, name |-> routes[k].name, meta |-> routes[k].meta]
    ELSE [path |-> location, name |-> "undefined", meta |-> NoMeta]

\* The locations that resolve to a defined route.
Locations ==
    {routes[k].path : k \in 1..Len(routes)}
    \cup {routes[k].path \o "/" : k \in {i \in 1..Len(routes) : routes[i].path # "/"}}

\* The computed breadcrumbs of App.vue.
breadcrumbsAppended(r) ==
    (IF r.name \in DOMAIN routeInfo
     THEN <<Crumb(routeInfo[r.name].label, r.path)>> ELSE <<>>)
    \o r.meta.breadcrumbs
breadcrumbs(r) ==
    LET crumbs ==
            IF r.name \in DOMAIN routeInfo
            THEN <<Crumb(routeInfo[r.name].label, r.path)>>
            ELSE <<>>
    IN  IF r.meta.declared THEN r.meta.breadcrumbs ELSE crumbs

\* Nodes of the header's <nav>: a router-link to a crumb's path, the span
\* of the current page, the "/" separator span.
RouterLink(crumb) ==
    [tag |-> "router-link", to |-> crumb.path, text |-> crumb.label,
     class |-> "font-medium text-muted-foreground"]
CurrentSpan(crumb) ==
    [tag |-> "span", to |-> "", text |-> crumb.label, class |-> "font-medium"]
SeparatorSpan ==
    [tag |-> "span", to |-> "", text |-> "/", class |-> "text-muted-foreground"]

\* The body of the v-for for the crumb at position index (from 1):
\* v-if="index < breadcrumbs.length - 1" on the link and on the separator,
\* v-else on the span.
NodesOfLinked(list, index) == <<RouterLink(list[index]), SeparatorSpan>>
NodesOf(list, index) ==
    IF index < Len(list)
    THEN <<RouterLink(list[index]), SeparatorSpan>>
    ELSE <<CurrentSpan(list[index])>>

\* <template v-for="(crumb, index) in breadcrumbs">: the nodes of all
\* crumbs from position index on, in order.
RECURSIVE RenderFrom(_, _)
RenderFrom(list, index) ==
    IF index > Len(list) THEN <<>>
    ELSE NodesOf(list, index) \o RenderFrom(list, index + 1)
Render(list) == RenderFrom(list, 1)

NavInit ==
    /\ route = START_LOCATION
    /\ history = <<>>
    /\ position = 0

\* router.push(location), a RouterLink click or the initial navigation: a
\* new history entry replaces the forward entries.
Push(location) ==
    /\ position < MaxHistory
    /\ position > 0 => location # history[position]
    /\ history' = Append(SubSeq(history, 1, position), location)
    /\ position' = position + 1
    /\ route' = Resolve(location)
    /\ UNCHANGED <<serverVars, clientVars, hostVars>>

\* router.replace(location)
Replace(location) ==
    /\ position > 0
    /\ location # history[position]
    /\ history' = [history EXCEPT ![position] = location]
    /\ route' = Resolve(location)
    /\ UNCHANGED position
    /\ UNCHANGED <<serverVars, clientVars, hostVars>>

\* router.back() / the browser's back button.
Back ==
    /\ position > 1
    /\ position' = position - 1
    /\ route' = Resolve(history[position - 1])
    /\ UNCHANGED history
    /\ UNCHANGED <<serverVars, clientVars, hostVars>>

\* router.forward() / the browser's forward button.
Forward ==
    /\ position > 0
    /\ position < Len(history)
    /\ position' = position + 1
    /\ route' = Resolve(history[position + 1])
    /\ UNCHANGED history
    /\ UNCHANGED <<serverVars, clientVars, hostVars>>

NextNav ==
    \/ \E location \in Locations : Push(location)
    \/ \E location \in Locations : Replace(location)
    \/ Back
    \/ Forward

\* Route objects App.vue can be given by a router table of the template:
\* any name, with or without an entry in routeInfo, any declared list.
CrumbLists ==
    UNION {[1..n -> {Crumb("Home", "/"), Crumb("Details", "/home/details")}] : n \in 0..MaxCrumbs}
RouteObjects ==
    [path : {"/", "/home/details", "/settings"},
     name : DOMAIN routeInfo \cup {"home-details", "undefined"},
     meta : {NoMeta} \cup {Meta(list) : list \in CrumbLists}]

\* useRoute() yields a route object.
UseRoute(r) ==
    /\ route' = r
    /\ UNCHANGED <<history, position>>
    /\ UNCHANGED <<serverVars, clientVars, hostVars>>

NextCrumbs == \E r \in RouteObjects : UseRoute(r)

\* ------------------------------------------------------------------------
\* Startup: Program, configuration, database creation
\* ------------------------------------------------------------------------
\* A configuration key that is not set.
null == "null"

\* a ?? b
Coalesce(value, default) == IF value = null THEN default ELSE value

\* The two Programs of the repository: one registers its services inline,
\* the other through AddApiServices(builder.Configuration).
Programs == {"inline", "extensions"}

\* Values the configuration can hold.
ConnectionStrings == {null, "Data Source=budget.db", "Data Source=app.db"}
FrontendUrls == {null, "http://localhost:5173", "https://app.example.com"}
ApiUrls == {null, "https://api.example.com/api"}
Settings == [DefaultConnection : ConnectionStrings, FrontendUrl : FrontendUrls]
NotConfigured == [DefaultConnection |-> null, FrontendUrl |-> null]
NotRegistered == [connectionString |-> null, origin |-> null]

\* AddDatabaseConfiguration and AddCorsConfiguration: the configured value,
\* or the default when the key is not set.
AddApiServicesFixed(configuration) ==
    [connectionString |-> "Data Source=budget.db", origin |-> "http://localhost:5173"]
AddApiServices(configuration) ==
    [connectionString |-> Coalesce(configuration.DefaultConnection, "Data Source=budget.db"),
     origin |-> Coalesce(configuration.FrontendUrl, "http://localhost:5173")]

\* The registrations of Program.cs: UseSqlite and WithOrigins with literals.
InlineServices ==
    [connectionString |-> "Data Source=budget.db", origin |-> "http://localhost:5173"]

\* State of a deployment whose configuration sets nothing, with the
\* frontend module loaded.
HostInit ==
    /\ app = "created"
    /\ schema = FALSE
    /\ settings = NotConfigured
    /\ program = "extensions"
    /\ effective = NotRegistered
    /\ env = null
    /\ apiUrl = BASE_URL

\* Any configuration, either Program, the frontend module not yet loaded.
ConfigInit ==
    /\ app = "created"
    /\ schema = FALSE
    /\ settings \in Settings
    /\ program \in Programs
    /\ effective = NotRegistered
    /\ env \in ApiUrls
    /\ apiUrl = null

\* WebApplication.CreateBuilder, the service registrations, builder.Build()
Build ==
    /\ app = "created"
    /\ app' = "built"
    /\ effective' =
        IF program = "extensions" THEN AddApiServices(settings) ELSE InlineServices
    /\ UNCHANGED <<schema, settings, program, env, apiUrl>>
    /\ UNCHANGED <<serverVars, clientVars, navVars>>

\* await context.Database.EnsureCreatedAsync()
EnsureCreatedAsync ==
    /\ app = "built"
    /\ app' = "ensured"
    /\ schema' = TRUE
    /\ UNCHANGED <<settings, program, effective, env, apiUrl>>
    /\ UNCHANGED <<serverVars, clientVars, navVars>>

\* The middleware pipeline is configured and app.Run() starts the server.
AppRun ==
    /\ app = "ensured"
    /\ app' = "running"
    /\ UNCHANGED <<schema, settings, program, effective, env, apiUrl>>
    /\ UNCHANGED <<serverVars, clientVars, navVars>>

\* The frontend evaluates client.ts: const BASE_URL = '...'
LoadClient ==
    /\ apiUrl = null
    /\ apiUrl' = BASE_URL
    /\ UNCHANGED <<app, schema, settings, program, effective, env>>
    /\ UNCHANGED <<serverVars, clientVars, navVars>>

NextConfig ==
    \/ Build
    \/ EnsureCreatedAsync
    \/ AppRun
    \/ LoadClient

Init == ServerInit /\ ClientInit /\ NavInit /\ HostInit

Next ==
    \/ Build
    \/ EnsureCreatedAsync
    \/ AppRun
    \/ \E w \in Workers, r \in Requests : Receive(w, r)
    \/ \E w \in Workers : GetAll(w)
    \/ \E w \in Workers : Get(w)
    \/ \E w \in Workers : Post(w)
    \/ \E w \in Workers : Put(w)
    \/ \E w \in Workers : PutCatch(w)
    \/ \E w \in Workers : Delete(w)
    \/ \E w \in Workers : DeleteSave(w)
    \/ \E w \in Workers : Complete(w)

vars ==
    <<db, pc, req, tracked, resp, ledger,
      cpc, call, sent, wire, console, result, wrapper, awaited,
      route, history, position,
      app, schema, settings, program, effective, env, apiUrl>>

\* Requests handled concurrently on the thread pool.
Spec == Init /\ [][Next]_vars

\* A running server whose store already holds entities, receiving only Put
\* and Delete requests.
Stores == {store \in SUBSET {e \in Entity : e.Id # 0} : \A e, f \in store : e.Id = f.Id => e = f}
InitStored ==
    /\ db \in Stores
    /\ ledger = db
    /\ pc = [w \in Workers |-> "idle"]
    /\ req = [w \in Workers |-> NoRequest]
    /\ tracked = [w \in Workers |-> NoEntity]
    /\ resp = [w \in Workers |-> NoResponse]
    /\ ClientInit
    /\ NavInit
    /\ app = "running"
    /\ schema = TRUE
    /\ settings = NotConfigured
    /\ program = "extensions"
    /\ effective = AddApiServices(NotConfigured)
    /\ env = null
    /\ apiUrl = BASE_URL

NextPutDelete ==
    \/ \E w \in Workers, r \in {q \in Requests : q.verb \in {"Put", "Delete"}} : Receive(w, r)
    \/ \E w \in Workers : Put(w)
    \/ \E w \in Workers : PutCatch(w)
    \/ \E w \in Workers : Delete(w)
    \/ \E w \in Workers : DeleteSave(w)
    \/ \E w \in Workers : Complete(w)

SpecPutDelete == InitStored /\ [][NextPutDelete]_vars

\* One request handled at a time.
Serial(w, r) ==
    /\ \A v \in Workers : pc[v] = "idle"
    /\ Receive(w, r)

NextSerial ==
    \/ Build
    \/ EnsureCreatedAsync
    \/ AppRun
    \/ \E w \in Workers, r \in Requests : Serial(w, r)
    \/ \E w \in Workers : GetAll(w)
    \/ \E w \in Workers : Get(w)
    \/ \E w \in Workers : Post(w)
    \/ \E w \in Workers : Put(w)
    \/ \E w \in Workers : PutCatch(w)
    \/ \E w \in Workers : Delete(w)
    \/ \E w \in Workers : DeleteSave(w)
    \/ \E w \in Workers : Complete(w)

SpecSerial == Init /\ [][NextSerial]_vars

\* The resource client against a server that may answer anything.
SpecClient == Init /\ [][ClientNext]_vars

\* Navigation in the browser.
SpecNav == Init /\ [][NextNav]_vars

\* App.vue given any route object.
SpecCrumbs == Init /\ [][NextCrumbs]_vars

\* Startup of the backend and of the frontend under any configuration.
InitConfig == ServerInit /\ ClientInit /\ NavInit /\ ConfigInit
SpecConfig == InitConfig /\ [][NextConfig]_vars

\* ------------------------------------------------------------------------
\* Frontend: the Axios client and its BaseApiService<T>
\* ------------------------------------------------------------------------
\* axios.create({ baseURL, timeout, headers })
baseURL == "http://localhost:5000/api"

\* The default validateStatus of Axios: 2xx resolves, the rest rejects.
validateStatusAny(status) == TRUE
validateStatus(status) == status >= 200 /\ status < 300

\* What the response promise rejects with; status 0 stands for an
\* undefined error.response (no response: network error, timeout).
AxiosError(status) ==
    [tag |-> "AxiosError", status |-> status,
     message |-> IF status = 0 THEN <<"Network Error">>
                 ELSE <<"Request failed with status code ", ToString(status)>>,
     error |-> NoCause]

\* Lines of the request and response interceptors; config.url is the url
\* the operation passed, without the baseURL.
AxiosRequestLine(method, url) ==
    [level |-> "log", mark |-> "request", method |-> method, url |-> url, status |-> 0]
AxiosResponseLine(method, url, status) ==
    [level |-> "log", mark |-> "success", method |-> method, url |-> url, status |-> status]
AxiosErrorLine(method, url, status) ==
    [level |-> "error", mark |-> "failure", method |-> method, url |-> url, status |-> status]
\* console.log('Unauthorized access')
UnauthorizedLine ==
    [level |-> "log", mark |-> "unauthorized", method |-> "", url |-> <<>>, status |-> 0]

\* if (error.response?.status === 401)
UnauthorizedNever(status) == FALSE
Unauthorized(status) == status = 401

\* The rejected handler of the response interceptor: the error line, the
\* unauthorized step, then Promise.reject(error).
OnRejected(lines, method, url, status) ==
    LET logged == Append(lines, AxiosErrorLine(method, url, status)) IN
    IF Unauthorized(status) THEN Append(logged, UnauthorizedLine) ELSE logged

\* response.data: the parsed JSON body; a body that is not JSON is kept as
\* text. update and delete return nothing.
AxiosData(c, body) ==
    IF c.op \in {"update", "delete"} THEN Succeed("void", <<>>)
    ELSE IF body.json = "invalid" THEN Succeed("text", <<>>)
    ELSE Succeed(body.json, body.items)

\* How the promise of an operation settles, given what the request did.
AxiosOutcome(c, s) ==
    IF s.kind = "response" /\ validateStatus(s.status)
    THEN AxiosData(c, s.body)
    ELSE Fail(AxiosError(s.status))

\* An operation of the Axios BaseApiService up to `await apiClient.*(...)`:
\* the request interceptor, then the request.
AxiosRun(c) ==
    /\ cpc = "idle"
    /\ cpc' = "fetching"
    /\ call' = c
    /\ console' = <<AxiosRequestLine(MethodOf(c), UrlOf(c))>>
    /\ sent' = <<[method |-> MethodOf(c), url |-> <<baseURL>> \o UrlOf(c), body |-> BodyOf(c)]>>
    /\ wire' = NoSettlement
    /\ result' = NoResult
    /\ wrapper' = "axios"
    /\ awaited' = Pending
    /\ UNCHANGED <<serverVars, navVars, hostVars>>

\* The request settles: the response interceptor runs, then the rest of
\* the operation.
AxiosSettle(s) ==
    /\ cpc = "fetching"
    /\ wrapper = "axios"
    /\ cpc' = "done"
    /\ wire' = s
    /\ console' =
        IF s.kind = "response" /\ validateStatus(s.status)
        THEN Append(console, AxiosResponseLine(MethodOf(call), UrlOf(call), s.status))
        ELSE OnRejected(console, MethodOf(call), UrlOf(call), s.status)
    /\ result' = AxiosOutcome(call, s)
    /\ awaited' =
        IF result'.kind = "success"
        THEN Fulfilled(result'.shape, result'.items)
        ELSE Rejected(result'.error)
    /\ UNCHANGED <<call, sent, wrapper>>
    /\ UNCHANGED <<serverVars, navVars, hostVars>>

NextWrappers ==
    \/ \E c \in Calls : Run(c)
    \/ \E s \in Settlements : Settle(s)
    \/ \E c \in Calls : AxiosRun(c)
    \/ \E s \in Settlements : AxiosSettle(s)
    \/ Finish

\* Both resource clients against a server that may answer anything.
SpecWrappers == Init /\ [][NextWrappers]_vars

\* ------------------------------------------------------------------------
\* The resource client against the controller
\* ------------------------------------------------------------------------
\* The address the API listens on, with the "api" prefix of the route
\* template [Route("api/[controller]")].
ApiRoot == "http://localhost:5000/api"
\* The [controller] token: the name of the concrete controller class.
controller == "tasks"

\* Route value {id}: the int a path segment parses to; -1 when it is none.
ParseId(segment) ==
    IF \E i \in RouteIds : ToString(i) = segment
    THEN CHOOSE i \in RouteIds : ToString(i) = segment
    ELSE -1

\* Model binding of the JSON request body to T.
Bind(body) ==
    IF body = NoData THEN NoEntity ELSE [Id |-> body.id, Data |-> body.data]

\* Attribute routing of BaseController<T>: [HttpGet], [HttpGet("{id}")],
\* [HttpPost], [HttpPut("{id}")], [HttpDelete("{id}")] under the route
\* template. NoRequest when no action matches.
RouteAlwaysGetAll(r) == [verb |-> "GetAll", id |-> 0, entity |-> NoEntity]
RouteOf(r) ==
    LET url == r.url
        onCollection ==
            Len(url) = 3 /\ url[1] = ApiRoot /\ url[2] = "/" /\ url[3] = controller
        onItem ==
            /\ Len(url) = 5 /\ url[1] = ApiRoot /\ url[2] = "/" /\ url[3] = controller
            /\ url[4] = "/" /\ ParseId(url[5]) # -1
    IN  CASE onCollection /\ r.method = "GET" ->
                [verb |-> "GetAll", id |-> 0, entity |-> NoEntity]
          [] onCollection /\ r.method = "POST" /\ r.body # NoData ->
                [verb |-> "Post", id |-> 0, entity |-> Bind(r.body)]
          [] onItem /\ r.method = "GET" ->
                [verb |-> "Get", id |-> ParseId(url[5]), entity |-> NoEntity]
          [] onItem /\ r.method = "PUT" /\ r.body # NoData ->
                [verb |-> "Put", id |-> ParseId(url[5]), entity |-> Bind(r.body)]
          [] onItem /\ r.method = "DELETE" ->
                [verb |-> "Delete", id |-> ParseId(url[5]), entity |-> NoEntity]
          [] OTHER -> NoRequest

\* JSON of an entity in a response body: Id as a number, CreatedAt as an
\* ISO 8601 string.
JsonOf(entity) ==
    [id |-> JNumber(ToString(entity.Id)), createdAt |-> JString(IsoDate)]

\* The orders in which the rows of a result can be listed.
Listings(rows) ==
    {s \in [1..Cardinality(rows) -> rows] : \A e \in rows : \E k \in DOMAIN s : s[k] = e}

\* The HTTP response the client receives for an action result: Ok(list) is
\* a JSON array, Ok(entity) and CreatedAtAction a JSON object, every other
\* result has no body the client reads.
HttpResponse(verb, response, listing) ==
    [kind |-> "response", status |-> response.status,
     body |->
        IF response.status \in {200, 201}
        THEN [json |-> IF verb = "GetAll" THEN "array" ELSE "object",
              items |-> [k \in DOMAIN listing |-> JsonOf(listing[k])]]
        ELSE [json |-> "invalid", items |-> <<>>]]

\* The caller runs an operation; the request before it has been completed
\* on the server.
Call(c) ==
    /\ \A w \in Workers : pc[w] = "idle"
    /\ Run(c)

\* The request fetch has sent reaches its controller action.
Dispatch(w) ==
    /\ cpc = "fetching"
    /\ \A v \in Workers : pc[v] = "idle"
    /\ RouteOf(sent[1]) # NoRequest
    /\ Receive(w, RouteOf(sent[1]))

\* The response of the action settles the client's fetch.
Deliver(w) ==
    /\ pc[w] = "done"
    /\ \E listing \in Listings(resp[w].body) :
        Settle(HttpResponse(req[w].verb, resp[w], listing))

\* The request scope ends once the response has been sent.
Release(w) ==
    /\ cpc # "fetching"
    /\ Complete(w)

NextApp ==
    \/ Build
    \/ EnsureCreatedAsync
    \/ AppRun
    \/ \E c \in Calls : Call(c)
    \/ \E w \in Workers : Dispatch(w)
    \/ \E w \in Workers : GetAll(w)
    \/ \E w \in Workers : Get(w)
    \/ \E w \in Workers : Post(w)
    \/ \E w \in Workers : Put(w)
    \/ \E w \in Workers : PutCatch(w)
    \/ \E w \in Workers : Delete(w)
    \/ \E w \in Workers : DeleteSave(w)
    \/ \E w \in Workers : Deliver(w)
    \/ \E w \in Workers : Release(w)
    \/ Finish

SpecApp == Init /\ [][NextApp]_vars

\* ------------------------------------------------------------------------
\* Properties of the resource client (SpecClient)
\* ------------------------------------------------------------------------
Success2xx == 200..299

\* C1: every run of a resource-client operation issues exactly one HTTP
\* request, with the operation's method, whether it ends in success or in
\* failure: none before the run, one while fetch is pending, and still
\* that one once the outcome is known.
C1_ExactlyOneRequest ==
    /\ cpc = "idle" => sent = <<>>
    /\ cpc \in {"fetching", "done"} =>
        /\ Len(sent) = 1
        /\ sent[1].method = MethodOf(call)
        /\ sent[1].url = <<BASE_URL>> \o UrlOf(call)

\* A failed operation that has issued its request.
C1_Witness ==
    /\ cpc = "done"
    /\ result.kind = "failure"
    /\ wire.kind = "response"
    /\ wire.status = 500
    /\ Len(sent) = 1

\* C2: for every operation and every response whose status is not 2xx,
\* the operation fails with an ApiError whose status is the response's
\* status and whose message is set, and returns no payload.
C2_NonOkFailsWithApiError ==
    (cpc = "done" /\ wire.kind = "response" /\ wire.status \notin Success2xx) =>
        /\ result.kind = "failure"
        /\ result.items = <<>>
        /\ result.error.tag = "ApiError"
        /\ result.error.status = wire.status
        /\ result.error.message # <<>>

\* Whether a JSON body has the shape an operation's schema asks for.
BodyMatches(c, body) ==
    /\ body.json = (IF c.op = "getAll" THEN "array" ELSE "object")
    /\ \A k \in 1..Len(body.items) :
        /\ body.items[k].id.t = "number"
        /\ body.items[k].createdAt.t = "string"

\* C3: getAll, getById and create answered 2xx with a JSON body: a body
\* that does not match the schema (the array schema for getAll) makes the
\* operation fail with a ParseError and no payload; a body that matches
\* makes it succeed with the decoded payload, one decoded entity per
\* object, its id kept and its createdAt turned into a Date.
C3_SchemaValidation ==
    (/\ cpc = "done"
     /\ call.op \in {"getAll", "getById", "create"}
     /\ wire.kind = "response"
     /\ wire.status \in Success2xx
     /\ wire.body.json # "invalid") =>
        IF BodyMatches(call, wire.body)
        THEN /\ result.kind = "success"
             /\ Len(result.items) = Len(wire.body.items)
             /\ \A k \in 1..Len(result.items) :
                 /\ result.items[k].id = wire.body.items[k].id.v
                 /\ result.items[k].createdAt.time \in {IsoDate, "Invalid Date"}
                 /\ (result.items[k].createdAt.time = IsoDate
                        <=> wire.body.items[k].createdAt.v = IsoDate)
        ELSE /\ result.kind = "failure"
             /\ result.error.tag = "ParseError"
             /\ result.items = <<>>

\* getAll answered 200 with an array whose second object has a string id.
C3_Witness ==
    /\ cpc = "done"
    /\ call.op = "getAll"
    /\ wire.status = 200
    /\ wire.body.json = "array"
    /\ Len(wire.body.items) = 2
    /\ wire.body.items[1].id.t = "number"
    /\ wire.body.items[1].createdAt.t = "string"
    /\ wire.body.items[2].id.t = "string"
    /\ result.error.tag = "ParseError"

\* ------------------------------------------------------------------------
\* Properties of the generic controller (Spec, SpecSerial)
\* ------------------------------------------------------------------------
StoredIds(store) == {e.Id : e \in store}
\* Worker w takes a step of its action.
Steps(w) == pc'[w] # pc[w]
\* Worker w produces its response in this step.
Answers(w) == pc[w] # "done" /\ pc'[w] = "done"

\* C4: whatever the store holds when Get(id) looks the entity up, the
\* response is 404 with no body when no stored entity has that id, and
\* 200 with exactly the stored entity of that id otherwise.
C4_GetFoundOrNotFound ==
    [][\A w \in Workers :
        (pc[w] = "Get" /\ Steps(w)) =>
            /\ pc'[w] = "done"
            /\ IF \E e \in db : e.Id = req[w].id
               THEN /\ resp'[w].status = 200
                    /\ resp'[w].body = {e \in db : e.Id = req[w].id}
               ELSE /\ resp'[w].status = 404
                    /\ resp'[w].body = {}]_vars

\* A Get answered 404 while the store holds another entity.
C4_Witness ==
    \E w \in Workers :
        /\ pc[w] = "done"
        /\ req[w].verb = "Get"
        /\ resp[w].status = 404
        /\ db # {}
        /\ req[w].id \notin StoredIds(db)

\* C5: Put(id, entity) with id different from entity.Id is answered 400
\* in its first step, whether or not either identifier is stored, and
\* writes nothing: the store is unchanged and the DbContext tracks no
\* entity.
C5_PutIdMismatchBadRequest ==
    [][\A w \in Workers :
        (pc[w] = "Put" /\ Steps(w) /\ req[w].id # req[w].entity.Id) =>
            /\ pc'[w] = "done"
            /\ resp'[w].status = 400
            /\ db' = db
            /\ tracked'[w] = NoEntity]_vars

\* A mismatched Put answered 400 while both identifiers are stored.
C5_Witness ==
    \E w \in Workers :
        /\ pc[w] = "done"
        /\ req[w].verb = "Put"
        /\ req[w].id # req[w].entity.Id
        /\ resp[w].status = 400
        /\ req[w].id \in StoredIds(db)
        /\ req[w].entity.Id \in StoredIds(db)

\* C6: when the save of Put has detected a concurrency conflict, the
\* request is answered with a not-found (404) or conflict (409) response,
\* never with an unhandled exception.
C6_ConflictNeverUnhandled ==
    [][\A w \in Workers :
        (pc[w] = "PutCatch" /\ Steps(w)) =>
            /\ pc'[w] = "done"
            /\ resp'[w].status \in {404, 409}]_vars

\* C7 as stated: every response carries one of 200, 201, 204, 400, 404;
\* GetAll gives 200, Get 200 or 404, Post 201, Put 204, 400 or 404,
\* Delete 204 or 404.
C7_StandardStatusOnly ==
    \A w \in Workers :
        pc[w] = "done" =>
            /\ resp[w].status \in {200, 201, 204, 400, 404}
            /\ req[w].verb = "GetAll" => resp[w].status = 200
            /\ req[w].verb = "Get" => resp[w].status \in {200, 404}
            /\ req[w].verb = "Post" => resp[w].status = 201
            /\ req[w].verb = "Put" => resp[w].status \in {204, 400, 404}
            /\ req[w].verb = "Delete" => resp[w].status \in {204, 404}

\* C7 amended: every response carries one of 200, 201, 204, 400, 404, or
\* is the 500 of an exception that leaves the action. GetAll gives 200, a
\* found Get 200, a Post that inserts 201, a Put or Delete that writes
\* 204. The 500 arises exactly from a Post whose own id is already
\* stored, from a Put whose failed save is followed by finding the entity
\* stored, and from a Delete whose entity is gone when it saves.
C7_StatusCodes ==
    [][\A w \in Workers :
        Answers(w) =>
            LET s == resp'[w].status
                id == req[w].id
                e == req[w].entity
            IN  CASE pc[w] = "GetAll" -> s = 200
                  [] pc[w] = "Get" ->
                        s = (IF id \in StoredIds(db) THEN 200 ELSE 404)
                  [] pc[w] = "Post" ->
                        s = (IF e.Id # 0 /\ e.Id \in StoredIds(db) THEN 500 ELSE 201)
                  [] pc[w] = "Put" ->
                        s = (IF id # e.Id THEN 400 ELSE 204)
                  [] pc[w] = "PutCatch" ->
                        s = (IF id \in StoredIds(db) THEN 500 ELSE 404)
                  [] pc[w] = "Delete" -> s = 404
                  [] pc[w] = "DeleteSave" ->
                        s = (IF id \in StoredIds(db) THEN 204 ELSE 500)
                  [] OTHER -> FALSE]_vars

\* A Post answered 500 and a Put answered 204 side by side.
C7_Witness ==
    \E w, v \in Workers :
        /\ pc[w] = "done" /\ req[w].verb = "Post" /\ resp[w].status = 500
        /\ pc[v] = "done" /\ req[v].verb = "Put" /\ resp[v].status = 204

\* C8: a Post of a valid entity (one that carries no id of its own, Id 0,
\* as the client's create sends it) is answered 201 with exactly one
\* entity: it has the submitted fields and a generated positive id that no
\* stored entity had; the store afterwards is the old store plus this
\* entity, so Get of the id finds exactly it and GetAll contains it.
C8_PostCreates ==
    [][\A w \in Workers :
        (pc[w] = "Post" /\ Steps(w) /\ req[w].entity.Id = 0) =>
            /\ pc'[w] = "done"
            /\ resp'[w].status = 201
            /\ Cardinality(resp'[w].body) = 1
            /\ \A e \in resp'[w].body :
                /\ e.Data = req[w].entity.Data
                /\ e.Id \in Ids
                /\ e.Id \notin StoredIds(db)
                /\ db' = db \cup {e}
                /\ {x \in db' : x.Id = e.Id} = {e}
                /\ e \in ToListAsync(db')]_vars

\* A Post without an id answered 201 while another entity was stored.
C8_Witness ==
    \E w \in Workers :
        /\ pc[w] = "done"
        /\ req[w].verb = "Post"
        /\ req[w].entity.Id = 0
        /\ resp[w].status = 201
        /\ resp[w].body \subseteq db
        /\ Cardinality(db) = 2

\* C9: the store changes only through the lifecycle verbs. An id appears
\* only in the step of a Post; the entity stored under an id changes only
\* in the step of a Put for that id; an id disappears only in the saving
\* step of a Delete for that id; a step of GetAll or Get, and every step
\* that is not one of those writes, leaves the store as it was.
C9_LifecycleFrame ==
    [][/\ \A i \in StoredIds(db') \ StoredIds(db) :
            \E w \in Workers : pc[w] = "Post" /\ Steps(w)
       /\ \A i \in StoredIds(db) \cap StoredIds(db') :
            {e \in db : e.Id = i} # {e \in db' : e.Id = i} =>
                \E w \in Workers :
                    pc[w] = "Put" /\ Steps(w) /\ req[w].id = i /\ req[w].entity.Id = i
       /\ \A i \in StoredIds(db) \ StoredIds(db') :
            \E w \in Workers :
                pc[w] = "DeleteSave" /\ Steps(w) /\ req[w].verb = "Delete" /\ req[w].id = i
       /\ \A w \in Workers :
            (Steps(w) /\ pc[w] \in {"GetAll", "Get", "idle", "done", "PutCatch", "Delete"})
                => db' = db]_vars

\* A Put has replaced the fields of one of two stored entities.
C9_Witness ==
    \E w \in Workers :
        /\ pc[w] = "done"
        /\ req[w].verb = "Put"
        /\ resp[w].status = 204
        /\ req[w].entity \in db
        /\ Cardinality(db) = 2

\* C10: with requests handled one at a time, Delete(id) of a stored entity
\* is answered 204 and removes it, and only it; Delete(id) of an absent id
\* is answered 404 and leaves the store unchanged. Removal is for good: an
\* absent id stays absent until the step of a Post, and while it is absent
\* every Get of it is answered 404 and every GetAll omits it.
C10_DeleteRemoves ==
    [][/\ \A w \in Workers :
            (pc[w] = "Delete" /\ Steps(w)) =>
                IF req[w].id \in StoredIds(db)
                THEN /\ pc'[w] = "DeleteSave"
                     /\ db' = db
                ELSE /\ pc'[w] = "done"
                     /\ resp'[w].status = 404
                     /\ db' = db
       /\ \A w \in Workers :
            (pc[w] = "DeleteSave" /\ Steps(w)) =>
                /\ pc'[w] = "done"
                /\ resp'[w].status = 204
                /\ req[w].id \in StoredIds(db)
                /\ db' = {e \in db : e.Id # req[w].id}
       /\ \A i \in RouteIds :
            (i \notin StoredIds(db) /\ i \in StoredIds(db')) =>
                \E w \in Workers : pc[w] = "Post" /\ Steps(w)
       /\ \A w \in Workers :
            (pc[w] = "Get" /\ Steps(w) /\ req[w].id \notin StoredIds(db)) =>
                resp'[w].status = 404 /\ resp'[w].body = {}
       /\ \A w \in Workers :
            (pc[w] = "GetAll" /\ Steps(w)) =>
                resp'[w].status = 200 /\ StoredIds(resp'[w].body) = StoredIds(db)]_vars

\* A Delete answered 204: its id is gone while another entity remains.
C10_Witness ==
    \E w \in Workers :
        /\ pc[w] = "done"
        /\ req[w].verb = "Delete"
        /\ resp[w].status = 204
        /\ req[w].id \notin StoredIds(db)
        /\ db # {}

\* C11: the persistence effect of a request is its own and all-or-nothing.
\* A step of a request writes only when it answers 201 or 204, so a
\* request that ends in 400, 404 or an unhandled exception (500) has
\* written nothing in any of its steps; and what a step writes is the
\* change of that request alone: the one row a Post inserts, the row of
\* the Put's own entity, the row of the Delete's own id. Nothing a previous
\* request left unsaved is written with it.
C11_RequestScopedAllOrNothing ==
    [][\A w \in Workers :
        Steps(w) =>
            /\ (\/ ~Answers(w)
                \/ resp'[w].status \in {400, 404, 500}) => db' = db
            /\ db' # db =>
                /\ Answers(w)
                /\ resp'[w].status \in {201, 204}
                /\ CASE pc[w] = "Post" ->
                            /\ resp'[w].body \cap db = {}
                            /\ db' = db \cup resp'[w].body
                            /\ Cardinality(resp'[w].body) = 1
                      [] pc[w] = "Put" ->
                            db' = {e \in db : e.Id # req[w].id} \cup {req[w].entity}
                      [] pc[w] = "DeleteSave" ->
                            db' = {e \in db : e.Id # req[w].id}
                      [] OTHER -> FALSE]_vars

\* A Post ended in an unhandled exception and the row that was in its way
\* is still the stored one.
C11_Witness ==
    \E w \in Workers :
        /\ pc[w] = "done"
        /\ req[w].verb = "Post"
        /\ resp[w].status = 500
        /\ req[w].entity.Id \in StoredIds(db)
        /\ req[w].entity \notin db

\* ------------------------------------------------------------------------
\* Properties of the client against the controller (SpecApp)
\* ------------------------------------------------------------------------
\* C12: each operation of the resource client sends the REST request of
\* its kind under the base URL, and that request reaches the controller
\* action of the same kind with the id and the entity of the call:
\* getAll GET /{resource} -> GetAll, getById GET /{resource}/{id} -> Get,
\* create POST /{resource} -> Post, update PUT /{resource}/{id} with the
\* entity as body -> Put, delete DELETE /{resource}/{id} -> Delete.
C12_ClientReachesMatchingAction ==
    [][\A w \in Workers :
        (pc[w] = "idle" /\ pc'[w] # "idle") =>
            LET r == sent[1]
                target == req'[w]
                collection == <<BASE_URL, "/", endpoint>>
                item == <<BASE_URL, "/", endpoint, "/", ToString(call.id)>>
                bound == [Id |-> call.entity.id, Data |-> call.entity.data]
            IN  /\ Len(sent) = 1
                /\ pc'[w] = target.verb
                /\ CASE call.op = "getAll" ->
                            /\ r.method = "GET" /\ r.url = collection
                            /\ target = [verb |-> "GetAll", id |-> 0, entity |-> NoEntity]
                     [] call.op = "getById" ->
                            /\ r.method = "GET" /\ r.url = item
                            /\ target = [verb |-> "Get", id |-> call.id, entity |-> NoEntity]
                     [] call.op = "create" ->
                            /\ r.method = "POST" /\ r.url = collection
                            /\ r.body = call.entity
                            /\ target = [verb |-> "Post", id |-> 0, entity |-> bound]
                     [] call.op = "update" ->
                            /\ r.method = "PUT" /\ r.url = item
                            /\ r.body = call.entity
                            /\ target = [verb |-> "Put", id |-> call.id, entity |-> bound]
                     [] call.op = "delete" ->
                            /\ r.method = "DELETE" /\ r.url = item
                            /\ target = [verb |-> "Delete", id |-> call.id, entity |-> NoEntity]
                     [] OTHER -> FALSE]_vars
\* An update whose body carries another id than the path has reached Put.
C12_Witness ==
    \E w \in Workers :
        /\ call.op = "update"
        /\ pc[w] = "Put"
        /\ req[w].id = call.id
        /\ req[w].entity.Id = call.entity.id
        /\ req[w].entity.Id # req[w].id

\* ------------------------------------------------------------------------
\* Properties of the controller: what GetAll lists
\* ------------------------------------------------------------------------
\* C13: GetAll answers 200 with exactly the entities stored when it runs,
\* and those are the entities the successful answers so far account for:
\* each entity a successful Post returned, unless a successful Delete of its
\* id followed, with the values of the last successful Put of its id.
C13_GetAllListsStored ==
    [][\A w \in Workers :
        (pc[w] = "GetAll" /\ pc'[w] = "done") =>
            /\ resp'[w].status = 200
            /\ resp'[w].body = db
            /\ resp'[w].body = ledger]_vars
\* GetAll has listed a store that holds entity 2 and no entity 1, while
\* another request has been answered 204 by Put or Delete.
C13_Witness ==
    \E w \in Workers :
        /\ pc[w] = "done"
        /\ req[w].verb = "GetAll"
        /\ resp[w].body = ledger
        /\ \E e \in resp[w].body : e.Id = 2 /\ e.Data = "b"
        /\ ~\E e \in resp[w].body : e.Id = 1
        /\ \E v \in Workers : req[v].verb \in {"Put", "Delete"} /\ resp[v].status = 204

\* ------------------------------------------------------------------------
\* Properties of the two HTTP client wrappers (SpecWrappers)
\* ------------------------------------------------------------------------
UnauthorizedHandled == \E k \in 1..Len(console) : console[k] = UnauthorizedLine
Answered401 == cpc = "done" /\ wire.kind = "response" /\ wire.status = 401

\* C14 as stated: whichever wrapper is in use, a response of status 401 has
\* the unauthorized-handling step performed before the caller gets the
\* failure, and the caller gets the failure.
C14_Handles401 ==
    Answered401 =>
        /\ UnauthorizedHandled
        /\ result.kind = "failure"
        /\ awaited.state = "rejected"

\* C14, amended: the Axios wrapper performs the unauthorized-handling step
\* for a response of status 401 and for no other outcome, after the error
\* line and before the caller gets the failure, which is the rejection of
\* the request itself; the fetch wrapper never performs such a step and
\* fails a 401 as it fails every other non-2xx response.
C14_AxiosHandles401 ==
    cpc = "done" =>
        /\ wrapper = "axios" =>
            /\ UnauthorizedHandled <=> (wire.kind = "response" /\ wire.status = 401)
            /\ UnauthorizedHandled =>
                /\ console[Len(console)] = UnauthorizedLine
                /\ console[Len(console) - 1].mark = "failure"
                /\ result = Fail(AxiosError(401))
                /\ awaited = Rejected(AxiosError(401))
        /\ wrapper = "fetch" =>
            /\ ~UnauthorizedHandled
            /\ Answered401 =>
                /\ result.kind = "failure"
                /\ awaited.state = "rejected"
                /\ console[Len(console)] = ResponseLine(MethodOf(call), UrlOf(call), 401)
\* The Axios client has been answered 401 on a delete.
C14_Witness ==
    /\ Answered401
    /\ wrapper = "axios"
    /\ call.op = "delete"
    /\ UnauthorizedHandled
    /\ awaited.state = "rejected"

\* ------------------------------------------------------------------------
\* Properties of the breadcrumbs (SpecNav, SpecCrumbs)
\* ------------------------------------------------------------------------
LastCrumb == breadcrumbs(route)[Len(breadcrumbs(route))]
\* The path the routes table declares for the current route.
DeclaredPath ==
    LET k == CHOOSE i \in 1..Len(routes) : routes[i].name = route.name IN routes[k].path

\* C15 as stated: once a navigation to a defined route has happened, the
\* breadcrumb list is never empty and the path of its last crumb is the
\* path of the current route.
C15_LastCrumbIsCurrentPath ==
    position > 0 =>
        /\ Len(breadcrumbs(route)) > 0
        /\ LastCrumb.path = route.path

\* C15, amended: once a navigation to a defined route has happened, the
\* breadcrumb list is never empty and its last crumb stands for the current
\* route: for a route that declares no breadcrumbs its path is the path of
\* the current route; for a route that declares breadcrumbs it is the path
\* the routes table declares for that route, which is the path of the
\* current route when the route was entered by its declared path.
C15_LastCrumbIsCurrentRoute ==
    position > 0 =>
        /\ Len(breadcrumbs(route)) > 0
        /\ ~route.meta.declared => LastCrumb.path = route.path
        /\ route.meta.declared => LastCrumb.path = DeclaredPath
        /\ route.path = DeclaredPath => LastCrumb.path = route.path
\* Back on the details page after a visit to the inbox, each entered with
\* a trailing slash.
C15_Witness ==
    /\ position = 1
    /\ Len(history) = 2
    /\ history = <<"/home/details/", "/inbox/">>
    /\ route.name = "home-details"
    /\ LastCrumb = Crumb("Details", "/home/details")

\* C16: a route whose meta declares breadcrumbs shows exactly the declared
\* list, in the declared order; the crumb computed from the route's name
\* is not added to it.
C16_DeclaredBreadcrumbsOnly ==
    route.meta.declared => breadcrumbs(route) = route.meta.breadcrumbs
\* A route that has an entry in routeInfo and declares two breadcrumbs.
C16_Witness ==
    /\ route.meta.declared
    /\ route.name = "settings"
    /\ route.path = "/settings"
    /\ breadcrumbs(route) = <<Crumb("Home", "/"), Crumb("Details", "/home/details")>>

\* ------------------------------------------------------------------------
\* Properties of startup and configuration (Spec, SpecConfig)
\* ------------------------------------------------------------------------
\* C17: no controller action runs before EnsureCreatedAsync has completed:
\* whenever a worker is inside an action or has answered, the Program has
\* passed EnsureCreatedAsync and the database exists.
C17_NoActionBeforeEnsureCreated ==
    \A w \in Workers :
        pc[w] # "idle" => (app = "running" /\ schema)
\* A request is inside Post on a started server.
C17_Witness ==
    \E w \in Workers : pc[w] = "Post" /\ app = "running" /\ schema

Started == app # "created" /\ apiUrl # null
\* What the configuration asks for, with the defaults where it sets nothing.
Wanted ==
    [connectionString |-> Coalesce(settings.DefaultConnection, "Data Source=budget.db"),
     origin |-> Coalesce(settings.FrontendUrl, "http://localhost:5173"),
     apiUrl |-> Coalesce(env, "http://localhost:5000/api")]

C18_RunPromiseResolvesToResult ==
    cpc = "done" => awaited.state = "fulfilled"

\* C20: every failure of getAll, getById or create is an ApiError or a
\* ParseError, also when fetch itself rejects and when a 2xx response
\* carries a body that is not JSON.
C20_FailureIsApiErrorOrParseError ==
    (cpc = "done" /\ ReadsBody(call) /\ result.kind = "failure") =>
        result.error.tag \in {"ApiError", "ParseError"}

\* ------------------------------------------------------------------------
\* Properties of Put and Delete (Spec)
\* ------------------------------------------------------------------------
\* C21: Put(id, entity) with id equal to entity.Id and no stored entity of
\* that id, neither when it saves nor when it looks the id up after the
\* failed save, is answered 404 and creates nothing: neither of its two
\* steps changes the store, and the entity is not stored when it answers.
C21_PutAbsentNotFound ==
    [][\A w \in Workers :
        /\ (/\ pc[w] = "Put" /\ Steps(w)
            /\ req[w].id = req[w].entity.Id
            /\ req[w].id \notin StoredIds(db)) =>
                /\ pc'[w] = "PutCatch"
                /\ db' = db
        /\ (pc[w] = "PutCatch" /\ Steps(w)) =>
                /\ req[w].id = req[w].entity.Id
                /\ db' = db
                /\ req[w].id \notin StoredIds(db) =>
                    /\ pc'[w] = "done"
                    /\ resp'[w].status = 404
                    /\ req[w].entity \notin db']_vars
\* A Put of id 2 has been answered 404 while only entity 1 is stored.
C21_Witness ==
    \E w \in Workers :
        /\ pc[w] = "done"
        /\ req[w].verb = "Put"
        /\ req[w].id = 2
        /\ req[w].entity.Id = 2
        /\ resp[w].status = 404
        /\ StoredIds(db) = {1}

\* C22: Put(id, entity) with id equal to entity.Id and a stored entity of
\* that id is answered 204 and stores the submitted entity in place of the
\* old one, every other stored entity unchanged; a Get(id) is answered 200
\* with exactly the entity the last successful Put of that id submitted, as
\* long as no successful Delete of the id came after it.
C22_PutThenGetRoundTrip ==
    [][\A w \in Workers :
        /\ (/\ pc[w] = "Put" /\ Steps(w)
            /\ req[w].id = req[w].entity.Id
            /\ req[w].id \in StoredIds(db)) =>
                /\ pc'[w] = "done"
                /\ resp'[w].status = 204
                /\ req[w].entity \in db'
                /\ {e \in db' : e.Id # req[w].id} = {e \in db : e.Id # req[w].id}
                /\ {e \in db' : e.Id = req[w].id} = {req[w].entity}
                /\ {e \in ledger' : e.Id = req[w].id} = {req[w].entity}
        /\ (pc[w] = "Get" /\ Steps(w) /\ req[w].id \in StoredIds(ledger)) =>
                /\ resp'[w].status = 200
                /\ resp'[w].body = {e \in ledger : e.Id = req[w].id}]_vars
\* One worker has been answered 204 for a Put that changed entity 1, the
\* other 200 for a Get of id 1 with the submitted entity, entity 2 stored.
C22_Witness ==
    \E v, w \in Workers :
        /\ pc[v] = "done" /\ req[v].verb = "Put" /\ resp[v].status = 204
        /\ req[v].entity = [Id |-> 1, Data |-> "b"]
        /\ pc[w] = "done" /\ req[w].verb = "Get" /\ req[w].id = 1
        /\ resp[w] = Ok({req[v].entity})
        /\ StoredIds(db) = {1, 2}

\* C23: whatever Post, Put and Delete requests have been handled, no two
\* stored entities share an id; and no step of a Put changes the number of
\* stored entities or the set of stored ids.
C23_UniqueIdsPutKeepsThem ==
    [][/\ \A e, f \in db' : e.Id = f.Id => e = f
       /\ \A w \in Workers :
            (pc[w] \in {"Put", "PutCatch"} /\ Steps(w)) =>
                /\ Cardinality(db') = Cardinality(db)
                /\ StoredIds(db') = StoredIds(db)]_vars
\* A Put has replaced the values of one of two stored entities.
C23_Witness ==
    \E w \in Workers :
        /\ pc[w] = "done" /\ req[w].verb = "Put" /\ resp[w].status = 204
        /\ req[w].entity \in db
        /\ req[w].entity.Data = "b"
        /\ \E e \in db : e.Id # req[w].id /\ e.Data = "a"
        /\ Cardinality(db) = 2

\* C24: when two Delete requests for the same stored id are handled
\* concurrently, one is answered 204 and the other 404: no Delete ends in
\* an unhandled exception, and two Deletes of one id that were in progress
\* together are not both answered 204.
C24_ConcurrentDeletesOneWins ==
    /\ \A w \in Workers :
        (pc[w] = "done" /\ req[w].verb = "Delete") => resp[w].status \in {204, 404}
    /\ \A v, w \in Workers :
        (/\ v # w
         /\ pc[v] = "done" /\ req[v].verb = "Delete"
         /\ pc[w] = "done" /\ req[w].verb = "Delete"
         /\ req[v].id = req[w].id) =>
            ~(resp[v].status = 204 /\ resp[w].status = 204)

\* ------------------------------------------------------------------------
\* Properties of concurrent Put and Delete requests (SpecPutDelete)
\* ------------------------------------------------------------------------
\* C25: with Put and Delete requests interleaved on a store that holds
\* entities, a Put of a stored id is answered 204 and leaves under that id
\* exactly the entity it submitted, so after two Puts of one id the stored
\* entity is, in all its fields, the one of the Put that saved last; every
\* Put with id equal to entity.Id is answered 204 or 404; and once a Delete
\* has been answered 204 its id is absent and stays absent.
C25_LastWriterWins ==
    [][/\ \A w \in Workers :
            (/\ pc[w] = "Put" /\ Steps(w)
             /\ req[w].id = req[w].entity.Id
             /\ req[w].id \in StoredIds(db)) =>
                /\ resp'[w].status = 204
                /\ {e \in db' : e.Id = req[w].id} = {req[w].entity}
       /\ \A w \in Workers :
            (/\ pc[w] \in {"Put", "PutCatch"} /\ Answers(w)
             /\ req[w].id = req[w].entity.Id) =>
                resp'[w].status \in {204, 404}
       /\ \A w \in Workers :
            (pc[w] = "DeleteSave" /\ Answers(w) /\ resp'[w].status = 204) =>
                req[w].id \notin StoredIds(db')
       /\ \A i \in RouteIds :
            i \notin StoredIds(db) => i \notin StoredIds(db')]_vars
\* Both workers have been answered 204 for a Put of id 1 with different
\* values; the stored entity is the one of the second worker.
C25_Witness ==
    /\ pc = [w \in Workers |-> "done"]
    /\ \A w \in Workers : req[w].verb = "Put" /\ req[w].id = 1 /\ resp[w].status = 204
    /\ req[1].entity = [Id |-> 1, Data |-> "a"]
    /\ req[2].entity = [Id |-> 1, Data |-> "b"]
    /\ req[2].entity \in db
    /\ req[1].entity \notin db

\* ------------------------------------------------------------------------
\* Properties of the logging of the two wrappers (SpecWrappers)
\* ------------------------------------------------------------------------
\* The request, success and error lines of the console, without their url.
LogEvents ==
    LET kept == {k \in 1..Len(console) : console[k].mark \in {"request", "success", "failure"}}
        Nth(n) == CHOOSE k \in kept : Cardinality({j \in kept : j < k}) = n - 1
    IN  [n \in 1..Cardinality(kept) |->
            [mark |-> console[Nth(n)].mark, level |-> console[Nth(n)].level,
             method |-> console[Nth(n)].method, status |-> console[Nth(n)].status]]

\* C26: for every request of the fetch-based client the request line is
\* logged by the time the HTTP request is sent and nothing else before the
\* response; after the response exactly one of the success line and the
\* error line has been logged for it, the error line exactly when the
\* status is not 2xx; the Axios client logs the same events.
C26_RequestAndResponseLogged ==
    /\ cpc = "fetching" =>
        /\ Len(sent) = 1
        /\ console[1].mark = "request"
        /\ LogEvents =
            <<[mark |-> "request", level |-> "log", method |-> sent[1].method, status |-> 0]>>
    /\ (cpc = "done" /\ wire.kind = "response") =>
        LogEvents =
            <<[mark |-> "request", level |-> "log", method |-> sent[1].method, status |-> 0],
              IF wire.status \in Success2xx
              THEN [mark |-> "success", level |-> "log",
                    method |-> sent[1].method, status |-> wire.status]
              ELSE [mark |-> "failure", level |-> "error",
                    method |-> sent[1].method, status |-> wire.status]>>
\* The Axios client has logged the error line of a PUT answered 404.
C26_Witness ==
    /\ cpc = "done"
    /\ wrapper = "axios"
    /\ call.op = "update"
    /\ wire.kind = "response" /\ wire.status = 404
    /\ Len(console) = 2
    /\ console[2] = AxiosErrorLine("PUT", ItemUrl(call.id), 404)

\* ------------------------------------------------------------------------
\* Properties of the client composed with the controller (SpecApp)
\* ------------------------------------------------------------------------
\* C27: against the controller, an operation of the client succeeds exactly
\* when the controller answers 2xx: update and delete succeed on 204
\* without a value, create succeeds on 201 with the returned entity, and a
\* 400 or 404 of the controller is a failure that carries that status.
C27_SuccessIffControllerAnswers2xx ==
    cpc = "done" =>
        /\ result.kind = "success" <=> wire.status \in Success2xx
        /\ (call.op \in {"update", "delete"} /\ wire.status = 204) =>
                result = Succeed("void", <<>>)
        /\ (call.op = "create" /\ wire.status = 201) =>
                /\ result.kind = "success"
                /\ result.items = <<DecodeObject(wire.body.items[1])>>
        /\ wire.status \in {400, 404} =>
                /\ result.kind = "failure"
                /\ result.error.status = wire.status

\* ------------------------------------------------------------------------
\* Properties relating the two resource clients (SpecWrappers)
\* ------------------------------------------------------------------------
\* The one request an operation stands for on the REST surface.
RestRequest(c) ==
    [method |-> CASE c.op \in {"getAll", "getById"} -> "GET"
                  [] c.op = "create" -> "POST"
                  [] c.op = "update" -> "PUT"
                  [] OTHER -> "DELETE",
     url |-> IF c.op \in {"getAll", "create"}
             THEN <<"http://localhost:5000/api", "/", "tasks">>
             ELSE <<"http://localhost:5000/api", "/", "tasks", "/", ToString(c.id)>>,
     body |-> IF c.op \in {"create", "update"} THEN c.entity ELSE NoData]

\* C28: whichever of the two resource clients runs an operation, it issues
\* the same single HTTP request (method, path, body), and for a response
\* both outcomes, the one of the fetch-based client and the one of the
\* Axios client, are successes or both are failures, whenever the body
\* matches the schema of the operation (update and delete have none) or
\* the status is not 2xx.
C28_ClientsInterchangeable ==
    /\ cpc # "idle" => sent = <<RestRequest(call)>>
    /\ (/\ cpc = "done"
        /\ wire.kind = "response"
        /\ \/ ~ReadsBody(call)
           \/ wire.status \notin Success2xx
           \/ BodyMatches(call, wire.body)) =>
            LET viaFetch == andThen(call, tryPromise(MethodOf(call), ReadsBody(call), wire))
                viaAxios == AxiosOutcome(call, wire)
            IN  /\ result = IF wrapper = "axios" THEN viaAxios ELSE viaFetch
                /\ viaFetch.kind = viaAxios.kind
                /\ viaFetch.kind = "success" <=> wire.status \in Success2xx
\* The Axios client has succeeded on a getAll answered 200 with two
\* entities that match the schema, as the fetch-based client would.
C28_Witness ==
    /\ cpc = "done"
    /\ wrapper = "axios"
    /\ call.op = "getAll"
    /\ wire.kind = "response" /\ wire.status = 200
    /\ Len(wire.body.items) = 2
    /\ BodyMatches(call, wire.body)
    /\ result.kind = "success"
    /\ andThen(call, tryPromise("GET", TRUE, wire)).kind = "success"

\* ------------------------------------------------------------------------
\* Properties of the rendered header (SpecCrumbs)
\* ------------------------------------------------------------------------
\* C29: in the rendered header, for every breadcrumb list, the last crumb
\* is a plain span with its label and every earlier crumb is a link to its
\* path with its label, followed by a separator, all in the order of the
\* list; nothing else is rendered, so a list of one crumb renders no link
\* and no separator.
C29_HeaderRendering ==
    LET list == breadcrumbs(route)
        n == Len(list)
        nodes == Render(list)
    IN  /\ n = 0 => nodes = <<>>
        /\ n > 0 =>
            /\ Len(nodes) = 2 * n - 1
            /\ nodes[2 * n - 1] = CurrentSpan(list[n])
            /\ nodes[2 * n - 1].tag # "router-link"
            /\ \A k \in 1..(n - 1) :
                /\ nodes[2 * k - 1].tag = "router-link"
                /\ nodes[2 * k - 1].to = list[k].path
                /\ nodes[2 * k - 1].text = list[k].label
                /\ nodes[2 * k] = SeparatorSpan
        /\ n = 1 =>
            \A i \in 1..Len(nodes) :
                nodes[i].tag # "router-link" /\ nodes[i] # SeparatorSpan
\* The two declared crumbs of a details page: a link to Home, a separator,
\* the span of Details.
C29_Witness ==
    /\ route.meta.declared
    /\ route.path = "/home/details"
    /\ route.name = "home-details"
    /\ Render(breadcrumbs(route)) =
        <<RouterLink(Crumb("Home", "/")), SeparatorSpan,
          CurrentSpan(Crumb("Details", "/home/details"))>>

====
